---- MODULE Spec2Model ----
(***************************************************************************)
(* Model of src/app.py: the heart-rain frame generator generate_frames and *)
(* the request handler export_video that calls it.                         *)
(*                                                                         *)
(* Numbers that Python computes in floating point are kept as integer      *)
(* fractions: t = rel / den with den = total_frames - start, and the real  *)
(* value of y is ynum / den with ynum = -size*den + rel*(height + 2*size). *)
(* The double that Python holds for y differs from ynum / den by far less  *)
(* than 1 / den, so it decides `y > height` and int(y) differently from    *)
(* the real value only when ynum / den is an integer; FloatDev computes,   *)
(* with integers, to which side IEEE-754 round-to-nearest moves y then.    *)
(* int(.) is truncation toward zero (TruncDiv).                            *)
(*                                                                         *)
(* The draws of the module `random` are free choices: randint(lo, hi) is   *)
(* any integer of lo..hi, random() is any double of [0, 1), so the drift   *)
(* int((random() - 0.5) * size * 0.2) is any integer of Drift(size), and   *)
(* no draw depends on another.  Spec is the program with these choices.    *)
(*                                                                         *)
(* Spec has too many states to enumerate: 15 hearts of three draws each,   *)
(* and one more draw per composited heart.  The properties are checked     *)
(* under SpecSampled, which takes every step of the program as Spec does   *)
(* but follows, for each input, MaxSeed + 1 fixed sequences of draws       *)
(* (Pick); each behaviour of SpecSampled is a behaviour of Spec.           *)
(***************************************************************************)
EXTENDS Integers, Sequences, FiniteSets

VARIABLES
    pc,              \* position of the program
    caller,          \* who called generate_frames: "none", "direct", "export_video"
    req,             \* export_video: the request (image present, filename, decodable)
    response,        \* export_video: the HTTP response, status 0 while none
    message_len,     \* len(message) as generate_frames receives it
    width, height, fps, duration,
    total_frames,
    hearts,          \* list of {"start", "x", "size"}
    heart_cache,     \* dict size -> sprite
    create_calls,    \* number of create_heart calls, per size (call counter)
    frames,          \* the list being returned
    frame,           \* the frame being composited
    frame_idx,       \* loop variable of line 146
    h_idx,           \* position in `for h in hearts` (1-based)
    last,            \* what the last iteration of the hearts loop computed
    seed,            \* SpecSampled: which sequence of draws is followed
    files_written,   \* export_video: frame files saved so far
    encoder_invoked  \* export_video: subprocess.run(ffmpeg) was called

vars == <<pc, caller, req, response, message_len, width, height, fps, duration,
          total_frames, hearts, heart_cache, create_calls, frames, frame,
          frame_idx, h_idx, last, seed, files_written, encoder_invoked>>

----------------------------------------------------------------------------
(* Bounds of the model *)

MaxFps == 3
MaxDuration == 2
MaxSeed == 11

Widths == {1, 34, 50, 100, 130}
Heights == {1, 10, 40}
MessageLens == {0, 201}

(* Program constants *)

heart_count == 15
DefaultWidth == 720
DefaultHeight == 720
DefaultFps == 15
DefaultDuration == 5
MessageCap == 200
shadow_offset == 2

----------------------------------------------------------------------------
(* Arithmetic helpers *)

\* int(a / b) for b > 0: truncation toward zero
TruncDiv(a, b) == IF a >= 0 THEN a \div b ELSE -((-a) \div b)

\* random.randint(lo, hi): the values it can return
Randint(lo, hi) == lo..hi

\* SpecSampled: the draw followed at position `pos` for attribute `attr` by
\* the sequence of draws number s, as an offset into the draw's range
Mix(s, pos, attr) ==
    LET h1 == (7919 * s + 6131 * pos + 3571 * attr + 1237) % 10007
        h2 == (h1 * h1 + 5 * h1 + s) % 10007
    IN (7717 * h2 + pos) % 10007

\* SpecSampled: the one value of lo..hi that offset n selects
Pick(lo, hi, n) == {lo + (n % (hi - lo + 1))}

----------------------------------------------------------------------------
(* generate_frames: pure parts *)

\* total_frames computed as fps + duration
TotalFrames_Sum(f, d) == f + d
TotalFrames(f, d) == f * d

\* start frames drawn from the whole run, randint(0, total_frames)
StartHi_Whole(T) == T
StartHi(T) == T \div 2

\* int(width * 0.03), int(width * 0.08)
SizeLo(w) == (3 * w) \div 100
\* upper size bound rounded up instead of truncated
SizeHi_Up(w) == (8 * w) \div 100 + 1
SizeHi(w) == (8 * w) \div 100

\* int(height * 0.06), int(height * 0.05)
FontSize(h) == (6 * h) \div 100
MsgY(h) == (5 * h) \div 100

\* create_heart(size): the RGBA raster, by its side and `radius = size // 2`
create_heart(size) == [side |-> size, radius |-> size \div 2]

\* bg.copy() with the two text passes drawn on it
NewFrame(w, h, mlen) ==
    [base |-> [w |-> w, h |-> h],
     caption |-> [len |-> mlen, font_size |-> FontSize(h), msg_y |-> MsgY(h),
                  shadow |-> shadow_offset],
     ops |-> <<>>,
     mode |-> "RGBA"]

\* `rel <= 0`: the heart's first frame is skipped
NotStarted_Late(rel) == rel <= 0
\* `rel < -1`: the heart is evaluated one frame before it starts
NotStarted_Early(rel) == rel < -1
\* rel < 0: the heart has not started
NotStarted(rel) == rel < 0

\* den of t = rel / (total_frames - start)
FallDen(T, start) == T - start

\* the fall spans height + size only: y = -size + t * (height + size)
YNum_Short(size, rel, den, h) == -size * den + rel * (h + size)
\* progress inverted: y = -size + (1 - t) * (height + size * 2)
YNum_Inverted(size, rel, den, h) == -size * den + (den - rel) * (h + size * 2)
\* y * den, for y = -size + t * (height + size * 2)
YNum(size, rel, den, h) == -size * den + rel * (h + size * 2)

\* 2^j mod m
RECURSIVE Pow2Mod(_, _)
Pow2Mod(j, m) == IF j = 0 THEN 1 % m ELSE (2 * Pow2Mod(j - 1, m)) % m

\* floor(log2 n), n >= 1
RECURSIVE FloorLog2(_)
FloorLog2(n) == IF n < 2 THEN 0 ELSE 1 + FloorLog2(n \div 2)

\* the j >= 1 with rel / den in [2^-j, 2^(1-j)), for 0 < rel < den
RECURSIVE NegExp(_, _, _)
NegExp(rel, den, j) == IF rel * 2^j >= den \/ j >= 30 THEN j ELSE NegExp(rel, den, j + 1)

\* sign of a - b * 2^sh
CmpScaled(a, b, sh) ==
    LET l == IF sh >= 0 THEN a ELSE a * 2^(-sh)
        r == IF sh >= 0 THEN b * 2^sh ELSE b
    IN IF l > r THEN 1 ELSE IF l < r THEN -1 ELSE 0

\* P = t * M in doubles, t = rel / den in doubles, when q = rel * M / den is an
\* integer >= 1: P = q + s * 2^(a + g) with a = FloorLog2(q); <<s, g>>
ProdDev(rel, den, M) ==
    LET q == (rel * M) \div den
        j == NegExp(rel, den, 1)
        rem == (rel * Pow2Mod(52 + j, den)) % den
        rho == IF 2 * rem < den THEN -rem ELSE den - rem
        mag == IF rho < 0 THEN -rho ELSE rho
        a == FloorLog2(q)
    IN IF rem = 0 THEN <<0, 0>>
       ELSE IF rho > 0
       THEN (IF CmpScaled(mag * M, den, a + j - 1) > 0 THEN <<1, -52>> ELSE <<0, 0>>)
       ELSE IF q > 2^a
       THEN (IF CmpScaled(mag * M, den, a + j - 1) > 0 THEN <<-1, -52>> ELSE <<0, 0>>)
       ELSE IF CmpScaled(mag * M, den, a + j - 2) <= 0 THEN <<0, 0>>
       ELSE IF CmpScaled(mag * M, 3 * den, a + j - 2) >= 0 THEN <<-1, -52>>
       ELSE <<-1, -53>>

\* sign of (the double y) - ynum / den, for y = -size + t * M
FloatDev(rel, den, M, size) ==
    IF rel <= 0 \/ den <= 0 \/ rel >= den \/ M <= 0 \/ (rel * M) % den # 0 THEN 0
    ELSE LET q == (rel * M) \div den
             d == ProdDev(rel, den, M)
             s == d[1]
             k == q - size
             kabs == IF k < 0 THEN -k ELSE k
             g == FloorLog2(q) + d[2]
             c == FloorLog2(kabs)
             away == (s > 0) = (k > 0)
             thr == IF away \/ kabs > 2^c THEN c - 53 ELSE c - 54
         IN IF s = 0 THEN 0
            ELSE IF k = 0 THEN s
            ELSE IF g > thr THEN s ELSE 0

\* y > height
FallenPast(ynum, den, dev, h) == ynum > h * den \/ (ynum = h * den /\ dev > 0)

\* the cache is never consulted
CacheMiss_Always(size, cache) == TRUE
\* size not in heart_cache
CacheMiss(size, cache) == size \notin DOMAIN cache

\* whatever sprite the cache holds first, not the one for `size`
CachedSprite_Any(cache, size) == cache[CHOOSE s \in DOMAIN cache : \A u \in DOMAIN cache : s <= u]
\* heart_cache[size]
CachedSprite(cache, size) == cache[size]

\* drift = int((random.random() - 0.5) * size * 0.2): the values it can take.
\* random() ranges over the doubles k / 2^53 of [0, 1), so the product ranges
\* over [-size/10, size/10): -size/10 itself is reached (random() = 0.0),
\* size/10 is not, and int(.) truncates toward zero.
DriftLo(size) == -(size \div 10)
DriftHi(size) == IF size > 0 /\ size % 10 = 0 THEN size \div 10 - 1 ELSE size \div 10
Drift(size) == DriftLo(size)..DriftHi(size)

\* dest_x = int(h["x"] - size / 2 + drift)
DestX(x, size, drift) == TruncDiv(2 * x - size + 2 * drift, 2)

\* dest_y = int(y)
DestY(ynum, den, dev) ==
    IF ynum % den # 0 THEN TruncDiv(ynum, den)
    ELSE LET k == ynum \div den
         IN IF k > 0 /\ dev < 0 THEN k - 1
            ELSE IF k < 0 /\ dev > 0 THEN k + 1
            ELSE k

NoEval == [kind |-> "none", f |-> 0, h |-> 0, rel |-> 0, tden |-> 0, ynum |-> 0]

NoResponse == [status |-> 0, error |-> ""]
NoRequest == [has_image |-> FALSE, filename_empty |-> FALSE, decodable |-> FALSE]

----------------------------------------------------------------------------
Init ==
    /\ pc = "idle"
    /\ caller = "none"
    /\ req = NoRequest
    /\ response = NoResponse
    /\ message_len = 0
    /\ width = 0 /\ height = 0 /\ fps = 0 /\ duration = 0
    /\ total_frames = 0
    /\ hearts = <<>>
    /\ heart_cache = <<>>
    /\ create_calls = <<>>
    /\ frames = <<>>
    /\ frame = NewFrame(0, 0, 0)
    /\ frame_idx = 0
    /\ h_idx = 0
    /\ last = NoEval
    /\ seed \in 0..MaxSeed
    /\ files_written = 0
    /\ encoder_invoked = FALSE

\* lines 124-128: entry of generate_frames(base_image, message, w, h, f, d)
Enter(who, mlen, w, h, f, d) ==
    /\ caller' = who
    /\ message_len' = mlen
    /\ width' = w /\ height' = h /\ fps' = f /\ duration' = d
    /\ total_frames' = TotalFrames(f, d)
    /\ hearts' = <<>>
    /\ pc' = "gen_hearts"

\* a caller other than export_video calls generate_frames
DirectCall ==
    /\ pc = "idle"
    /\ \E w \in Widths, h \in Heights, f \in 0..MaxFps, d \in 0..MaxDuration :
          Enter("direct", 2, w, h, f, d)
    /\ UNCHANGED <<req, response, heart_cache, create_calls, frames, frame,
                   frame_idx, h_idx, last, seed, files_written, encoder_invoked>>

\* the decoding error is swallowed
DecodeFails_Never(r) == FALSE
\* Image.open(...).convert("RGBA") raises
DecodeFails(r) == ~r.decodable

\* export_video, lines 198-214: validation, decoding, the temporary directory,
\* the call of generate_frames.  tempfile.TemporaryDirectory() (line 212) can
\* raise an OSError, which no except clause meets: export_video is then left
\* by the exception, without a response of its own, generate_frames not called.
ExportValidate ==
    /\ pc = "idle"
    /\ \E hi \in BOOLEAN, fe \in BOOLEAN, dec \in BOOLEAN, ml \in MessageLens :
         LET r == [has_image |-> hi, filename_empty |-> fe, decodable |-> dec]
             m == IF ml > MessageCap THEN MessageCap ELSE ml
         IN /\ req' = r
            /\ IF ~r.has_image
               THEN /\ response' = [status |-> 400, error |-> "Missing image file"]
                    /\ pc' = "responded"
                    /\ UNCHANGED <<caller, message_len, width, height, fps,
                                   duration, total_frames, hearts>>
               ELSE IF r.filename_empty
               THEN /\ response' = [status |-> 400, error |-> "Empty filename"]
                    /\ pc' = "responded"
                    /\ UNCHANGED <<caller, message_len, width, height, fps,
                                   duration, total_frames, hearts>>
               ELSE IF DecodeFails(r)
               THEN /\ response' = [status |-> 400, error |-> "Invalid image file"]
                    /\ pc' = "responded"
                    /\ UNCHANGED <<caller, message_len, width, height, fps,
                                   duration, total_frames, hearts>>
               ELSE \/ /\ response' = response
                       /\ Enter("export_video", m, DefaultWidth, DefaultHeight,
                                DefaultFps, DefaultDuration)
                    \/ /\ response' = response
                       /\ pc' = "raised"
                       /\ UNCHANGED <<caller, message_len, width, height, fps,
                                      duration, total_frames, hearts>>
    /\ UNCHANGED <<heart_cache, create_calls, frames, frame, frame_idx, h_idx,
                   last, seed, files_written, encoder_invoked>>

\* lines 129-133: one iteration of `for _ in range(heart_count)`, the three
\* draws taken from the sets Starts, Xs, Sizes
GenHeartOf(Starts, Xs, Sizes) ==
    /\ pc = "gen_hearts"
    /\ Len(hearts) < heart_count
    /\ \E start_frame \in Starts, x_pos \in Xs, size \in Sizes :
          hearts' = Append(hearts, [start |-> start_frame, x |-> x_pos, size |-> size])
    /\ UNCHANGED <<pc, caller, req, response, message_len, width, height, fps,
                   duration, total_frames, heart_cache, create_calls, frames,
                   frame, frame_idx, h_idx, last, seed, files_written,
                   encoder_invoked>>

\* start_frame = random.randint(0, total_frames // 2), x_pos = random.randint(0, width),
\* size = random.randint(int(width * 0.03), int(width * 0.08))
GenHeart ==
    GenHeartOf(Randint(0, StartHi(total_frames)),
               Randint(0, width),
               Randint(SizeLo(width), SizeHi(width)))

\* lines 135-145: empty cache, font and text metrics, empty frame list
PrepareLayout ==
    /\ pc = "gen_hearts"
    /\ Len(hearts) >= heart_count
    /\ heart_cache' = <<>>
    /\ create_calls' = <<>>
    /\ frames' = <<>>
    /\ frame_idx' = 0
    /\ pc' = "frame_loop"
    /\ UNCHANGED <<caller, req, response, message_len, width, height, fps,
                   duration, total_frames, hearts, frame, h_idx, last, seed,
                   files_written, encoder_invoked>>

\* lines 146-155: next frame index, copy of the background, caption
BeginFrame ==
    /\ pc = "frame_loop"
    /\ frame_idx < total_frames
    /\ frame' = NewFrame(width, height, message_len)
    /\ h_idx' = 1
    /\ pc' = "heart_loop"
    /\ UNCHANGED <<caller, req, response, message_len, width, height, fps,
                   duration, total_frames, hearts, heart_cache, create_calls,
                   frames, frame_idx, last, seed, files_written, encoder_invoked>>

Eval(kind, rel, den, ynum) ==
    [kind |-> kind, f |-> frame_idx, h |-> h_idx, rel |-> rel, tden |-> den,
     ynum |-> ynum]

\* lines 157-176: one iteration of `for h in hearts`, the drift of a
\* composited heart taken from the set Drifts
HeartStepOf(Drifts) ==
    /\ pc = "heart_loop"
    /\ h_idx <= Len(hearts)
    /\ LET h == hearts[h_idx]
           rel == frame_idx - h.start
           den == FallDen(total_frames, h.start)
           ynum == YNum(h.size, rel, den, height)
           dev == FloatDev(rel, den, height + h.size * 2, h.size)
           size == h.size
           miss == CacheMiss(size, heart_cache)
           cache1 == IF miss
                     THEN [s \in DOMAIN heart_cache \cup {size} |->
                              IF s = size THEN create_heart(size) ELSE heart_cache[s]]
                     ELSE heart_cache
           calls1 == IF miss
                     THEN [s \in DOMAIN create_calls \cup {size} |->
                              IF s = size
                              THEN (IF s \in DOMAIN create_calls
                                    THEN create_calls[s] ELSE 0) + 1
                              ELSE create_calls[s]]
                     ELSE create_calls
       IN \/ /\ NotStarted(rel)
             /\ last' = Eval("not_started", rel, 0, 0)
             /\ UNCHANGED <<heart_cache, create_calls, frame>>
          \/ /\ ~NotStarted(rel)
             /\ FallenPast(ynum, den, dev, height)
             /\ last' = Eval("fallen", rel, den, ynum)
             /\ UNCHANGED <<heart_cache, create_calls, frame>>
          \/ /\ ~NotStarted(rel)
             /\ ~FallenPast(ynum, den, dev, height)
             /\ heart_cache' = cache1
             /\ create_calls' = calls1
             /\ \E drift \in Drifts :
                   frame' = [frame EXCEPT !.ops = Append(@,
                               [h |-> h_idx,
                                sprite |-> CachedSprite(cache1, size),
                                dest_x |-> DestX(h.x, size, drift),
                                dest_y |-> DestY(ynum, den, dev),
                                drift |-> drift])]
             /\ last' = Eval("drawn", rel, den, ynum)
    /\ h_idx' = h_idx + 1
    /\ UNCHANGED <<pc, caller, req, response, message_len, width, height, fps,
                   duration, total_frames, hearts, frames, frame_idx, seed,
                   files_written, encoder_invoked>>

HeartStep == HeartStepOf(Drift(hearts[h_idx].size))

\* line 177: frames.append(frame.convert("RGB"))
AppendFrame ==
    /\ pc = "heart_loop"
    /\ h_idx > Len(hearts)
    /\ frames' = Append(frames, [frame EXCEPT !.mode = "RGB"])
    /\ frame_idx' = frame_idx + 1
    /\ pc' = "frame_loop"
    /\ UNCHANGED <<caller, req, response, message_len, width, height, fps,
                   duration, total_frames, hearts, heart_cache, create_calls,
                   frame, h_idx, last, seed, files_written, encoder_invoked>>

\* lines 166-176: an iteration of `for h in hearts` that reached the sprite
\* lookup is left by an exception.  create_heart raising (line 169) leaves the
\* call made and nothing stored; alpha_composite raising (line 176) leaves the
\* sprite of a cache miss stored; in both cases nothing is composited.
HeartStepRaises ==
    /\ pc = "heart_loop"
    /\ h_idx <= Len(hearts)
    /\ LET h == hearts[h_idx]
           rel == frame_idx - h.start
           den == FallDen(total_frames, h.start)
           ynum == YNum(h.size, rel, den, height)
           dev == FloatDev(rel, den, height + h.size * 2, h.size)
           size == h.size
           miss == CacheMiss(size, heart_cache)
           cache1 == IF miss
                     THEN [s \in DOMAIN heart_cache \cup {size} |->
                              IF s = size THEN create_heart(size) ELSE heart_cache[s]]
                     ELSE heart_cache
           calls1 == IF miss
                     THEN [s \in DOMAIN create_calls \cup {size} |->
                              IF s = size
                              THEN (IF s \in DOMAIN create_calls
                                    THEN create_calls[s] ELSE 0) + 1
                              ELSE create_calls[s]]
                     ELSE create_calls
       IN /\ ~NotStarted(rel)
          /\ ~FallenPast(ynum, den, dev, height)
          /\ \/ /\ miss
                /\ create_calls' = calls1
                /\ heart_cache' = heart_cache
             \/ /\ create_calls' = calls1
                /\ heart_cache' = cache1
          /\ last' = Eval("interrupted", rel, den, ynum)
    /\ pc' = "raised"
    /\ UNCHANGED <<caller, req, response, message_len, width, height, fps,
                   duration, total_frames, hearts, frames, frame, frame_idx,
                   h_idx, seed, files_written, encoder_invoked>>

\* an exception raised elsewhere inside generate_frames (by resize, the font,
\* the text drawing or convert) is caught nowhere in generate_frames nor
\* around line 214: it leaves generate_frames, and export_video when that is
\* the caller, with nothing returned
GenerateRaises ==
    /\ pc \in {"gen_hearts", "frame_loop", "heart_loop"}
    /\ pc' = "raised"
    /\ UNCHANGED <<caller, req, response, message_len, width, height, fps,
                   duration, total_frames, hearts, heart_cache, create_calls,
                   frames, frame, frame_idx, h_idx, last, seed, files_written,
                   encoder_invoked>>

\* line 178: return frames
Return ==
    /\ pc = "frame_loop"
    /\ frame_idx >= total_frames
    /\ pc' = IF caller = "export_video" THEN "save" ELSE "returned"
    /\ UNCHANGED <<caller, req, response, message_len, width, height, fps,
                   duration, total_frames, hearts, heart_cache, create_calls,
                   frames, frame, frame_idx, h_idx, last, seed, files_written,
                   encoder_invoked>>

\* export_video, lines 217-219: one frame file saved, or frame.save raises
\* (an OSError of the write), which no except clause meets
SaveFrame ==
    /\ pc = "save"
    /\ files_written < Len(frames)
    /\ \/ /\ files_written' = files_written + 1
          /\ pc' = pc
       \/ /\ files_written' = files_written
          /\ pc' = "raised"
    /\ UNCHANGED <<caller, req, response, message_len, width, height, fps,
                   duration, total_frames, hearts, heart_cache, create_calls,
                   frames, frame, frame_idx, h_idx, last, seed, encoder_invoked>>

\* export_video, lines 228-250: ffmpeg is run.  FileNotFoundError and
\* CalledProcessError are answered with 500 and a message; success with the
\* file; any other exception of subprocess.run (an OSError such as
\* PermissionError) or of send_file meets no except clause and leaves
\* export_video, which then returns no response of its own.
RunEncoder ==
    /\ pc = "save"
    /\ files_written >= Len(frames)
    /\ encoder_invoked' = TRUE
    /\ \/ /\ response' = [status |-> 500, error |-> "ffmpeg is not installed on the server"]
          /\ pc' = "responded"
       \/ /\ response' = [status |-> 500, error |-> "Failed to encode video"]
          /\ pc' = "responded"
       \/ /\ response' = [status |-> 200, error |-> ""]
          /\ pc' = "responded"
       \/ /\ response' = response
          /\ pc' = "raised"
    /\ UNCHANGED <<caller, req, message_len, width, height, fps, duration,
                   total_frames, hearts, heart_cache, create_calls, frames,
                   frame, frame_idx, h_idx, last, seed, files_written>>

Next ==
    \/ DirectCall
    \/ ExportValidate
    \/ GenHeart
    \/ PrepareLayout
    \/ BeginFrame
    \/ HeartStep
    \/ AppendFrame
    \/ HeartStepRaises
    \/ GenerateRaises
    \/ Return
    \/ SaveFrame
    \/ RunEncoder

Spec == Init /\ [][Next]_vars

----------------------------------------------------------------------------
(* The program along sampled draws *)

\* position of a drift draw: the heart and the frame it is composited into
DrawPos == frame_idx * heart_count + h_idx

GenHeartSampled ==
    GenHeartOf(Pick(0, StartHi(total_frames), Mix(seed, Len(hearts) + 1, 1)),
               Pick(0, width, Mix(seed, Len(hearts) + 1, 2)),
               Pick(SizeLo(width), SizeHi(width), Mix(seed, Len(hearts) + 1, 3)))

HeartStepSampled ==
    HeartStepOf(Pick(DriftLo(hearts[h_idx].size), DriftHi(hearts[h_idx].size),
                     Mix(seed, DrawPos, 4)))

NextSampled ==
    \/ DirectCall
    \/ ExportValidate
    \/ GenHeartSampled
    \/ PrepareLayout
    \/ BeginFrame
    \/ HeartStepSampled
    \/ AppendFrame
    \/ HeartStepRaises
    \/ GenerateRaises
    \/ Return
    \/ SaveFrame
    \/ RunEncoder

SpecSampled == Init /\ [][NextSampled]_vars

----------------------------------------------------------------------------
(* Properties *)

\* export_video was left by an exception when every frame had been made
\* (while saving, encoding or sending)
RaisedLate ==
    /\ pc = "raised" /\ caller = "export_video"
    /\ Len(hearts) = heart_count
    /\ frame_idx = total_frames /\ Len(frames) = total_frames

\* generate_frames has returned (to export_video or to another caller)
Returned == pc \in {"returned", "save"}
               \/ (pc = "responded" /\ caller = "export_video")
               \/ RaisedLate

\* the hearts loop is past generation
Generated == pc \in {"frame_loop", "heart_loop", "returned", "save"}
                \/ (pc = "responded" /\ caller = "export_video")
                \/ RaisedLate

Drawn(fr, i) == \E j \in 1..Len(fr.ops) : fr.ops[j].h = i

DestYOf(fr, i) == fr.ops[CHOOSE j \in 1..Len(fr.ops) : fr.ops[j].h = i].dest_y

ZeroDrift(fr) == \A j \in 1..Len(fr.ops) : fr.ops[j].drift = 0

\* C1: generate_frames returns exactly fps * duration frames (75 for 15 x 5),
\* one appended per index in increasing order: while the loop runs the list
\* holds exactly the frames 0..frame_idx-1, and total_frames stays fps * duration.
C1_FrameCount ==
    /\ caller # "none" => total_frames = fps * duration
    /\ pc \in {"frame_loop", "heart_loop"} =>
          Len(frames) = frame_idx /\ frame_idx <= fps * duration
    /\ pc = "heart_loop" => frame_idx < fps * duration
    /\ Returned => Len(frames) = fps * duration
    /\ (Returned /\ fps = 15 /\ duration = 5) => Len(frames) = 75
    /\ (Returned /\ fps = 1 /\ duration = 1) => Len(frames) = 1

C1_Witness ==
    /\ pc = "save"
    /\ fps = 15 /\ duration = 5
    /\ Len(frames) = 75
    /\ files_written = 75

\* C2: a heart with start = k is composited into no frame f < k, and is
\* composited into frame k with y = -size.
C2_Activity ==
    /\ \A k \in 1..Len(frames) : \A j \in 1..Len(frames[k].ops) :
          hearts[frames[k].ops[j].h].start <= k - 1
    /\ \A i \in 1..Len(hearts) :
          (Generated /\ hearts[i].start < Len(frames)) =>
             /\ Drawn(frames[hearts[i].start + 1], i)
             /\ DestYOf(frames[hearts[i].start + 1], i) = -hearts[i].size
    /\ (pc = "heart_loop" /\ last.kind # "none" /\ last.f = frame_idx) =>
          /\ last.f < hearts[last.h].start => (last.kind = "not_started" /\ ~Drawn(frame, last.h))
          /\ last.f = hearts[last.h].start =>
                /\ last.kind = "drawn"
                /\ Drawn(frame, last.h)
                /\ last.ynum = -hearts[last.h].size * last.tden

C2_Witness ==
    /\ Returned
    /\ \E i, i2 \in 1..Len(hearts) :
          /\ hearts[i].start > 0
          /\ hearts[i].start < Len(frames)
          /\ hearts[i].size > 0
          /\ Drawn(frames[hearts[i].start + 1], i)
          /\ ~Drawn(frames[hearts[i].start], i)
          /\ hearts[i2].start > hearts[i].start
          /\ ~Drawn(frames[hearts[i].start + 1], i2)

\* C3 as claimed: in the last produced frame every heart has y > height, that
\* is, no heart is composited into frame total_frames - 1.
C3_ExitsByLastFrame ==
    (Returned /\ total_frames >= 1) =>
        \A i \in 1..Len(hearts) : ~Drawn(frames[total_frames], i)

\* C3 amended: in the last produced frame a heart has y > height when
\* (total_frames - start - 2) * size > height and is still composited when
\* (total_frames - start - 2) * size < height; under export_video's defaults
\* (720 x 720, 75 frames) every heart has left the canvas by the last frame.
C3_ExitCondition ==
    /\ (Returned /\ total_frames >= 1) =>
          \A i \in 1..Len(hearts) :
             LET m == (total_frames - hearts[i].start - 2) * hearts[i].size
             IN /\ m > height => ~Drawn(frames[total_frames], i)
                /\ m < height => Drawn(frames[total_frames], i)
    /\ (Returned /\ caller = "export_video") => frames[total_frames].ops = <<>>

C3_Witness ==
    /\ Returned
    /\ total_frames >= 2
    /\ \E i, j \in 1..Len(hearts) :
          /\ (total_frames - hearts[i].start - 2) * hearts[i].size > height
          /\ Drawn(frames[total_frames - 1], i)
          /\ ~Drawn(frames[total_frames], i)
          /\ (total_frames - hearts[j].start - 2) * hearts[j].size < height
          /\ Drawn(frames[total_frames], j)

\* sizes of the hearts composited so far in this run
RECURSIVE SizesIn(_, _)
SizesIn(ops, n) ==
    IF n = 0 THEN {} ELSE SizesIn(ops, n - 1) \cup {hearts[ops[n].h].size}

RECURSIVE SizesUpTo(_)
SizesUpTo(k) ==
    IF k = 0 THEN {} ELSE SizesUpTo(k - 1) \cup SizesIn(frames[k].ops, Len(frames[k].ops))

\* (outside the hearts loop `frame` is the frame appended last, or empty)
SizesDrawn ==
    SizesUpTo(Len(frames)) \cup SizesIn(frame.ops, Len(frame.ops))

\* the size whose sprite was being looked up when an exception left the loop
SizeInterrupted ==
    IF pc = "raised" /\ last.kind = "interrupted" /\ last.f = frame_idx /\ last.h = h_idx
    THEN {hearts[h_idx].size} ELSE {}

C4_WitnessCalledNotStored ==
    /\ pc = "raised"
    /\ DOMAIN create_calls # DOMAIN heart_cache
    /\ SizesDrawn # {}

C5_Particles ==
    [][ /\ \A i \in 1..Len(hearts') :
              /\ hearts'[i].start \in 0..total_frames'
              /\ 2 * hearts'[i].start <= total_frames'
              /\ 2 * (total_frames' - hearts'[i].start) >= total_frames'
        /\ Len(hearts') <= 15
        /\ Generated' => Len(hearts') = 15
        /\ hearts' # hearts =>
              /\ pc = "gen_hearts"
              /\ frames = <<>> /\ frame_idx = 0
              /\ Len(hearts') = Len(hearts) + 1
              /\ SubSeq(hearts', 1, Len(hearts)) = hearts
        /\ Generated => (hearts' = hearts /\ total_frames' = total_frames)
      ]_vars

C5_Witness ==
    /\ pc = "returned"
    /\ Len(frames) >= 2
    /\ Len(hearts) = 15
    /\ \E i, j \in 1..Len(hearts) :
          /\ 2 * hearts[i].start = total_frames
          /\ hearts[j].start = 0

\* C6 as claimed: 0.03 * width <= size <= 0.08 * width, size >= 1, 0 <= x <= width.
C6_SizeInRealRange ==
    \A i \in 1..Len(hearts) :
       /\ 3 * width <= 100 * hearts[i].size
       /\ 100 * hearts[i].size <= 8 * width
       /\ hearts[i].size >= 1
       /\ hearts[i].x \in 0..width

\* C6 amended: size is an integer with floor(0.03 * width) <= size <=
\* floor(0.08 * width): it never exceeds 0.08 * width, it is more than
\* 0.03 * width - 1, it is >= 0, and >= 1 once width >= 34; 0 <= x <= width.
C6_SizeInTruncatedRange ==
    \A i \in 1..Len(hearts) :
       /\ 100 * hearts[i].size > 3 * width - 100
       /\ 100 * hearts[i].size <= 8 * width
       /\ hearts[i].size >= 0
       /\ width >= 34 => hearts[i].size >= 1
       /\ hearts[i].x \in 0..width

C6_Witness ==
    /\ Len(hearts) = 15
    /\ \E i, j \in 1..Len(hearts) :
          /\ hearts[i].size >= 1
          /\ 100 * hearts[i].size < 3 * width
          /\ 100 * (hearts[j].size + 1) > 8 * width
    /\ \E k, m \in 1..Len(hearts) : hearts[k].x = width /\ hearts[m].x = 0

\* the composite operations of frame f, from the hearts and f alone
RECURSIVE ExpectedOps(_, _)
ExpectedOps(f, n) ==
    IF n = 0 THEN <<>>
    ELSE LET h == hearts[n]
             rel == f - h.start
             den == total_frames - h.start
             ynum == -h.size * den + rel * (height + 2 * h.size)
             dev == FloatDev(rel, den, height + 2 * h.size, h.size)
             prev == ExpectedOps(f, n - 1)
         IN IF rel < 0 \/ ynum > height * den \/ (ynum = height * den /\ dev > 0)
            THEN prev
            ELSE Append(prev,
                    [h |-> n,
                     sprite |-> [side |-> h.size, radius |-> h.size \div 2],
                     dest_x |-> TruncDiv(2 * h.x - h.size, 2),
                     dest_y |-> DestY(ynum, den, dev),
                     drift |-> 0])

ExpectedFrame(f) ==
    [base |-> [w |-> width, h |-> height],
     caption |-> [len |-> message_len, font_size |-> (6 * height) \div 100,
                  msg_y |-> (5 * height) \div 100, shadow |-> 2],
     ops |-> ExpectedOps(f, Len(hearts)),
     mode |-> "RGB"]

\* the frame appended last, if its drifts are all zero, is the expected one
NewestFrameAsExpected ==
    ZeroDrift(frames[Len(frames)]) =>
       frames[Len(frames)] = ExpectedFrame(Len(frames) - 1)

\* C7: the newest produced frame f, if its drifts are all zero, is the frame
\* determined by the background size, the caption, the hearts and f alone,
\* whatever was composited before and whatever the cache held; and no step
\* changes a frame already produced, the hearts, the caption or the
\* background size: so every produced zero-drift frame is and stays the frame
\* those inputs determine.
C7_Determinism ==
    [][ /\ Len(frames) >= 1 => NewestFrameAsExpected
        /\ Len(frames') \in {Len(frames), Len(frames) + 1}
        /\ \A k \in 1..Len(frames) : frames'[k] = frames[k]
        /\ pc \in {"frame_loop", "heart_loop"} =>
              /\ hearts' = hearts
              /\ width' = width /\ height' = height
              /\ message_len' = message_len
              /\ total_frames' = total_frames
      ]_vars

C7_Witness ==
    /\ Returned
    /\ Len(frames) >= 3
    /\ \E k \in 2..Len(frames) :
          /\ ZeroDrift(frames[k])
          /\ Len(frames[k].ops) >= 2
          /\ frames[k] # frames[k - 1]
          /\ \E j1, j2 \in 1..Len(frames[k].ops) :
                frames[k].ops[j1].sprite # frames[k].ops[j2].sprite
    /\ \E k \in 1..Len(frames) : ~ZeroDrift(frames[k])

\* C8: a request whose image is present and named but cannot be decoded ends
\* with 400 "Invalid image file" and generate_frames is never entered: no
\* heart, no frame, no file, no encoder, no exception; that response is given
\* in no other case; the encoder-missing and encoding-failed responses are 500
\* with other messages and are given only after the encoder was started on a
\* decoded image; an exception leaves export_video only after the image was
\* decoded, and then without a response of export_video.
C8_InvalidImage ==
    LET undecodable == req.has_image /\ ~req.filename_empty /\ ~req.decodable
    IN /\ undecodable =>
             /\ pc = "responded"
             /\ response = [status |-> 400, error |-> "Invalid image file"]
             /\ caller = "none"
             /\ hearts = <<>> /\ frames = <<>>
             /\ files_written = 0
             /\ ~encoder_invoked
       /\ response.error = "Invalid image file" => (undecodable /\ response.status = 400)
       /\ response.status = 500 =>
             /\ encoder_invoked
             /\ req.decodable
             /\ response.error \in {"ffmpeg is not installed on the server",
                                    "Failed to encode video"}
       /\ response.error \in {"ffmpeg is not installed on the server",
                              "Failed to encode video"} =>
             (response.status = 500 /\ encoder_invoked /\ req.decodable)
       /\ (pc = "raised" /\ caller # "direct") =>
             /\ req.has_image /\ ~req.filename_empty /\ req.decodable
             /\ response = NoResponse
       /\ (pc = "raised" /\ caller = "none") =>
             (hearts = <<>> /\ frames = <<>> /\ files_written = 0 /\ ~encoder_invoked)
       /\ encoder_invoked => files_written = Len(frames)

C8_Witness ==
    /\ pc = "responded"
    /\ req.has_image /\ ~req.filename_empty /\ ~req.decodable
    /\ response.status = 400
    /\ response.error = "Invalid image file"

\* C9: whenever t = rel / (total_frames - start) is evaluated, the divisor is
\* at least 1 and 0 <= t < 1; while frames are produced every heart's divisor
\* is at least 1.
C9_Progress ==
    /\ last.kind \in {"fallen", "drawn", "interrupted"} =>
          /\ last.tden >= 1
          /\ last.tden = total_frames - hearts[last.h].start
          /\ last.rel = last.f - hearts[last.h].start
          /\ 0 <= last.rel
          /\ last.rel < last.tden
    /\ (pc \in {"frame_loop", "heart_loop"} /\ total_frames >= 1) =>
          \A i \in 1..Len(hearts) : total_frames - hearts[i].start >= 1

C9_Witness ==
    /\ last.kind = "drawn"
    /\ last.tden >= 2
    /\ last.rel = last.tden - 1
    /\ hearts[last.h].start > 0

\* C10: the frames a heart is composited into are consecutive and begin at
\* its start: a heart composited into frame f > start is composited into
\* frame f - 1 as well, and its dest_y there is not larger.
C10_Contiguous ==
    Returned =>
       \A k \in 2..Len(frames) : \A j \in 1..Len(frames[k].ops) :
          LET i == frames[k].ops[j].h
          IN /\ hearts[i].start <= k - 1
             /\ hearts[i].start < k - 1 =>
                   /\ Drawn(frames[k - 1], i)
                   /\ DestYOf(frames[k - 1], i) <= frames[k].ops[j].dest_y

C10_Witness ==
    /\ Returned
    /\ Len(frames) >= 4
    /\ \E i \in 1..Len(hearts) :
          /\ hearts[i].start >= 1
          /\ hearts[i].start + 2 < Len(frames)
          /\ ~Drawn(frames[hearts[i].start], i)
          /\ Drawn(frames[hearts[i].start + 1], i)
          /\ Drawn(frames[hearts[i].start + 2], i)
          /\ ~Drawn(frames[Len(frames) - 1], i)
          /\ ~Drawn(frames[Len(frames)], i)

====
